---- MODULE Spec2Model ----
(***************************************************************************)
(* A model of src/generate_rss.py: the title parser split_report_title,    *)
(* the feed builder create_rss_feed and the driver generate_rss.           *)
(*                                                                         *)
(* Python strings are sequences of one-character strings.  The characters  *)
(* U+2013, U+2014 and U+0000 are written "u2013", "u2014" and "x00".       *)
(* A JSON/Python value is a tagged record; Absent marks a key that a dict  *)
(* does not hold (it is not a value: d.get(k) turns it into None).         *)
(***************************************************************************)
EXTENDS Integers, Sequences, FiniteSets, TLC

VARIABLES
    input,      \* split_report_title: the argument input_string
    tpc,        \* split_report_title: "call" before the call, "done" after the return
    result,     \* split_report_title: the returned pair
    items,      \* generate_rss / create_rss_feed: the list items
    idx,        \* create_rss_feed: position of the for loop in items
    channel,    \* create_rss_feed: the children of the channel element
    err,        \* the exception that ended the run ("none" while there is none)
    pc,         \* generate_rss: the statement the run is at
    file,       \* the content of output_file (NoFile while it does not exist)
    file0,      \* the content of output_file before the run
    xml,        \* generate_rss: the string prettify_xml returned
    printed     \* whether the success message was printed

vars == <<input, tpc, result, items, idx, channel, err, pc, file, file0, xml, printed>>

titleVars == <<input, tpc, result>>
feedVars == <<items, idx, channel, err, pc, file, file0, xml, printed>>

(***************************************************************************)
(* Bounds of the model.                                                    *)
(***************************************************************************)
MaxLen == 3       \* longest input string drawn freely over TitleAlphabet
MaxText == 2      \* longest <text> drawn over TextAlphabet
MaxItems == 2     \* longest items list of an API response

(***************************************************************************)
(* Characters and strings.                                                 *)
(***************************************************************************)
EnDash == "u2013"
EmDash == "u2014"
Nul == "x00"

RECURSIVE Concat(_)
\* "".join(ss) for a sequence of strings
Concat(ss) == IF ss = <<>> THEN <<>> ELSE Head(ss) \o Concat(Tail(ss))

\* s[a-1:b] in Python terms: the characters at the 1-based positions a..b
Slice(s, a, b) == [k \in 1..(IF b >= a THEN b - a + 1 ELSE 0) |-> s[a + k - 1]]

\* the regular expression class \s, and str.strip()'s whitespace
IsSpace(c) == c \in {" ", "\t", "\n"}

\* the regular expression class \d
IsDigit(c) == c \in {"0", "1", "2", "3", "4", "5", "6", "7", "8", "9"}

\* the class [-–—:] of divider_pattern
IsDivider(c) == c \in {"-", EnDash, EmDash, ":"}

UpperAlpha == <<"A","B","C","D","E","F","G","H","I","J","K","L","M","N","O","P","Q","R","S","T","U","V","W","X","Y","Z">>
LowerAlpha == <<"a","b","c","d","e","f","g","h","i","j","k","l","m","n","o","p","q","r","s","t","u","v","w","x","y","z">>

\* a mutant of LowerChar: the match made case-sensitive (re.IGNORECASE dropped)
LowerCharCaseSensitive(c) == c

\* re.IGNORECASE: characters are compared by their lower-case form
LowerChar(c) ==
    IF \E k \in 1..26 : UpperAlpha[k] = c
    THEN LowerAlpha[CHOOSE k \in 1..26 : UpperAlpha[k] = c]
    ELSE c

Lower(s) == [k \in 1..Len(s) |-> LowerChar(s[k])]

\* str.strip(): leading and trailing whitespace removed
Strip(s) ==
    IF \A k \in 1..Len(s) : IsSpace(s[k]) THEN <<>>
    ELSE LET first == CHOOSE k \in 1..Len(s) : ~IsSpace(s[k]) /\ \A j \in 1..(k-1) : IsSpace(s[j])
             last  == CHOOSE k \in 1..Len(s) : ~IsSpace(s[k]) /\ \A j \in (k+1)..Len(s) : IsSpace(s[j])
         IN Slice(s, first, last)

(***************************************************************************)
(* split_report_title.                                                     *)
(***************************************************************************)
\* a greedy \s* from position i: the first position at or after i that holds no whitespace
SkipSpaces(s, i) ==
    IF \E j \in i..Len(s) : ~IsSpace(s[j])
    THEN CHOOSE j \in i..Len(s) : ~IsSpace(s[j]) /\ \A k \in i..(j-1) : IsSpace(s[k])
    ELSE Len(s) + 1

\* divider_pattern \s*[-–—:]\s* matched at position i: the position after the
\* match, or 0 when it does not match there
DividerMatchEnd(s, i) ==
    LET j == SkipSpaces(s, i)
    IN IF j <= Len(s) /\ IsDivider(s[j]) THEN SkipSpaces(s, j + 1) ELSE 0

\* the start of the leftmost match of divider_pattern in s, or 0 when there is none
DividerSearch(s) ==
    IF \E i \in 1..Len(s) : DividerMatchEnd(s, i) # 0
    THEN CHOOSE i \in 1..Len(s) : DividerMatchEnd(s, i) # 0 /\ \A k \in 1..(i-1) : DividerMatchEnd(s, k) = 0
    ELSE 0

RECURSIVE ReSplit(_, _)
\* re.split(divider_pattern, s, maxsplit): maxsplit = 0 splits at every match
ReSplit(s, maxsplit) ==
    LET i == DividerSearch(s)
    IN IF i = 0 THEN <<s>>
       ELSE LET rest == Slice(s, DividerMatchEnd(s, i), Len(s))
            IN IF maxsplit = 1 THEN <<Slice(s, 1, i - 1), rest>>
               ELSE <<Slice(s, 1, i - 1)>> \o ReSplit(rest, IF maxsplit = 0 THEN 0 ELSE maxsplit - 1)

\* a mutant of MaxSplit: the maxsplit argument left out (0 is re.split's default)
MaxSplitDefault == 1 - 1

\* the maxsplit argument of the call of re.split
MaxSplit == 1

W_special == <<"s","p","e","c","i","a","l">>
W_report == <<"r","e","p","o","r","t">>
OrdinalSuffixes == {<<"s","t">>, <<"n","d">>, <<"r","d">>, <<"t","h">>}

\* (Special\s+)?Report$ matched, ignoring case, against the whole of s
ReportTail(s) ==
    \/ Lower(s) = W_report
    \/ /\ Len(s) > 7
       /\ Lower(Slice(s, 1, 7)) = W_special
       /\ IsSpace(s[8])
       /\ Lower(Slice(s, SkipSpaces(s, 8), Len(s))) = W_report

\* re.match(ordinal_pattern, s, re.IGNORECASE) with
\* ordinal_pattern = ^\d+(st|nd|rd|th)\s+(Special\s+)?Report$
OrdinalMatch(s) ==
    \E d \in 1..Len(s) :
        /\ \A k \in 1..d : IsDigit(s[k])
        /\ d + 3 <= Len(s)
        /\ Lower(Slice(s, d + 1, d + 2)) \in OrdinalSuffixes
        /\ IsSpace(s[d + 3])
        /\ ReportTail(Slice(s, SkipSpaces(s, d + 3), Len(s)))

\* split_report_title(input_string)
SplitReportTitle(s) ==
    LET parts == ReSplit(s, MaxSplit)
    IN IF Len(parts) # 2 THEN <<<<>>, s>>
       ELSE LET left_part == Strip(parts[1])
                right_part == Strip(parts[2])
            IN IF OrdinalMatch(left_part) THEN <<left_part, right_part>>
               ELSE <<<<>>, s>>

(***************************************************************************)
(* Python values.                                                          *)
(***************************************************************************)
Absent == [t |-> "absent"]
None == [t |-> "None"]
StrV(s) == [t |-> "str", s |-> s]
IntV(n) == [t |-> "int", n |-> n]
ListV(l) == [t |-> "list", l |-> l]
DictV(d) == [t |-> "dict", d |-> d]

\* k in d, for a dict d
In(d, k) == d[k] # Absent

\* d.get(k, default), for a dict d
GetD(d, k, default) == IF d[k] = Absent THEN default ELSE d[k]

\* d.get(k), for a dict d
Get(d, k) == GetD(d, k, None)

\* the truth value of v in an if statement
Truthy(v) ==
    CASE v.t = "None" -> FALSE
      [] v.t = "str"  -> v.s # <<>>
      [] v.t = "int"  -> v.n # 0
      [] v.t = "list" -> v.l # <<>>
      [] v.t = "dict" -> \E k \in DOMAIN v.d : v.d[k] # Absent

Digits == <<"0", "1", "2", "3", "4", "5", "6", "7", "8", "9">>

RECURSIVE NatToStr(_)
NatToStr(n) == IF n < 10 THEN <<Digits[n + 1]>> ELSE NatToStr(n \div 10) \o <<Digits[(n % 10) + 1]>>

S_None == <<"N","o","n","e">>

\* str(v), for None, an int or a str
PyStr(v) ==
    CASE v.t = "None" -> S_None
      [] v.t = "int"  -> IF v.n < 0 THEN <<"-">> \o NatToStr(0 - v.n) ELSE NatToStr(v.n)
      [] v.t = "str"  -> v.s

(***************************************************************************)
(* datetime.fromisoformat and strftime.  The parser is the one of Python   *)
(* 3.11 and later (earlier versions reject the trailing Z), restricted to  *)
(* the extended format YYYY-MM-DD, one separator character, HH[:MM[:SS]]   *)
(* and the Z this program appends.                                         *)
(***************************************************************************)
DigitVal(c) == (CHOOSE n \in 1..10 : Digits[n] = c) - 1

RECURSIVE ParseNat(_)
ParseNat(s) == IF s = <<>> THEN 0 ELSE 10 * ParseNat(Slice(s, 1, Len(s) - 1)) + DigitVal(s[Len(s)])

AllDigits(s) == \A k \in 1..Len(s) : IsDigit(s[k])

IsLeap(y) == (y % 4 = 0) /\ ((y % 100 # 0) \/ (y % 400 = 0))

DaysInMonth(y, m) ==
    IF m = 2 THEN (IF IsLeap(y) THEN 29 ELSE 28)
    ELSE IF m \in {4, 6, 9, 11} THEN 30 ELSE 31

NoDate == [ok |-> FALSE]

\* datetime.fromisoformat(s): [ok |-> FALSE] stands for the ValueError it raises
FromIsoFormat(s) ==
    LET n == Len(s)
        field(a, b) == Slice(s, a, b)
        shape ==
            /\ n \in {14, 17, 20}
            /\ s[n] = "Z"
            /\ AllDigits(field(1, 4)) /\ s[5] = "-"
            /\ AllDigits(field(6, 7)) /\ s[8] = "-"
            /\ AllDigits(field(9, 10))
            /\ AllDigits(field(12, 13))
            /\ (n >= 17 => s[14] = ":" /\ AllDigits(field(15, 16)))
            /\ (n >= 20 => s[17] = ":" /\ AllDigits(field(18, 19)))
    IN IF ~shape THEN NoDate
       ELSE LET y  == ParseNat(field(1, 4))
                mo == ParseNat(field(6, 7))
                d  == ParseNat(field(9, 10))
                h  == ParseNat(field(12, 13))
                mi == IF n >= 17 THEN ParseNat(field(15, 16)) ELSE 0
                se == IF n >= 20 THEN ParseNat(field(18, 19)) ELSE 0
            IN IF /\ y >= 1 /\ mo \in 1..12 /\ d >= 1 /\ d <= DaysInMonth(y, mo)
                  /\ h <= 23 /\ mi <= 59 /\ se <= 59
               THEN [ok |-> TRUE, year |-> y, month |-> mo, day |-> d,
                     hour |-> h, minute |-> mi, second |-> se]
               ELSE NoDate

RECURSIVE DaysBeforeMonth(_, _)
DaysBeforeMonth(y, m) == IF m = 1 THEN 0 ELSE DaysBeforeMonth(y, m - 1) + DaysInMonth(y, m - 1)

\* date.toordinal(): 1 for 0001-01-01
ToOrdinal(y, m, d) ==
    (y - 1) * 365 + ((y - 1) \div 4) - ((y - 1) \div 100) + ((y - 1) \div 400)
    + DaysBeforeMonth(y, m) + d

DayNames == << <<"M","o","n">>, <<"T","u","e">>, <<"W","e","d">>, <<"T","h","u">>,
               <<"F","r","i">>, <<"S","a","t">>, <<"S","u","n">> >>
MonthNames == << <<"J","a","n">>, <<"F","e","b">>, <<"M","a","r">>, <<"A","p","r">>,
                 <<"M","a","y">>, <<"J","u","n">>, <<"J","u","l">>, <<"A","u","g">>,
                 <<"S","e","p">>, <<"O","c","t">>, <<"N","o","v">>, <<"D","e","c">> >>

Pad2(n) == IF n < 10 THEN <<"0">> \o NatToStr(n) ELSE NatToStr(n)

\* dt.strftime('%a, %d %b %Y %H:%M:%S GMT')
Strftime(dt) ==
    Concat(<< DayNames[((ToOrdinal(dt.year, dt.month, dt.day) + 6) % 7) + 1], <<",", " ">>,
              Pad2(dt.day), <<" ">>, MonthNames[dt.month], <<" ">>, NatToStr(dt.year), <<" ">>,
              Pad2(dt.hour), <<":">>, Pad2(dt.minute), <<":">>, Pad2(dt.second),
              <<" ", "G", "M", "T">> >>)

(***************************************************************************)
(* create_rss_feed.  An element is a record of its tag, text, attributes   *)
(* and children; the channel is kept as the sequence of its children.      *)
(***************************************************************************)
Elem(tag, text) == [tag |-> tag, text |-> text, attrib |-> <<>>, children |-> <<>>]

\* a mutant of SubElement: the new element is put before its siblings
SubElementFirst(siblings, e) == <<e>> \o siblings

\* SubElement(parent, ...): the new element becomes the last child
SubElement(siblings, e) == Append(siblings, e)

S_Lords == <<"L","o","r","d","s">>
S_Select == <<"S","e","l","e","c","t">>
S_Empty == <<>>

\* a mutant of IsLords: the house compared with another spelling
IsLordsLowerCase(committee) == Get(committee.d, "house") = StrV(<<"l","o","r","d","s">>)

\* item_data.get('committee').get('house') == 'Lords'
IsLords(committee) == Get(committee.d, "house") = StrV(S_Lords)

\* a mutant of IsNonSelect: the name is tested only where the category holds one
IsNonSelectNamed(committee) ==
    LET category == Get(committee.d, "category")
    IN /\ Truthy(category)
       /\ Get(category.d, "name") # None
       /\ Get(category.d, "name") # StrV(S_Select)

\* the two nested ifs on item_data.get('committee').get('category')
IsNonSelect(committee) ==
    LET category == Get(committee.d, "category")
    IN /\ Truthy(category)
       /\ Get(category.d, "name") # StrV(S_Select)

\* the eligibility test at the head of the loop body: TRUE where it says continue
Skipped(item_data) ==
    /\ Truthy(Get(item_data, "committee"))
    /\ \/ IsLords(Get(item_data, "committee"))
       \/ IsNonSelect(Get(item_data, "committee"))

UrlPublications == <<"h","t","t","p","s",":","/","/","c","o","m","m","i","t","t","e","e","s",".","p","a","r","l","i","a","m","e","n","t",".","u","k","/","p","u","b","l","i","c","a","t","i","o","n","s","/">>
UrlDocuments == <<"/","d","o","c","u","m","e","n","t","s","/">>
UrlDefault == <<"/","d","e","f","a","u","l","t","/">>

\* the f-string of the constructed link
PublicationUrl(publication_id, document_id) ==
    StrV(Concat(<<UrlPublications, PyStr(publication_id), UrlDocuments, PyStr(document_id), UrlDefault>>))

\* whether evaluating the elif condition raises: len() of a documents value that is None
LinkRaises(item_data) ==
    /\ GetD(item_data, "additionalContentUrl", None) = None
    /\ In(item_data, "documents")
    /\ item_data["documents"].t # "list"

\* a mutant of LinkText: the documents are looked at before additionalContentUrl
LinkTextDocumentsFirst(item_data) ==
    IF /\ In(item_data, "documents") /\ item_data["documents"].t = "list"
       /\ Len(item_data["documents"].l) > 0
       /\ Get(item_data, "id") # None
       /\ Get(item_data["documents"].l[1], "documentId") # None
    THEN PublicationUrl(Get(item_data, "id"), Get(item_data["documents"].l[1], "documentId"))
    ELSE IF GetD(item_data, "additionalContentUrl", None) # None
         THEN GetD(item_data, "additionalContentUrl", StrV(S_Empty))
         ELSE StrV(S_Empty)

\* link_text, where LinkRaises is false
LinkText(item_data) ==
    IF GetD(item_data, "additionalContentUrl", None) # None
    THEN GetD(item_data, "additionalContentUrl", StrV(S_Empty))
    ELSE IF In(item_data, "documents") /\ Len(item_data["documents"].l) > 0
         THEN LET publication_id == GetD(item_data, "id", None)
                  document_id == GetD(item_data["documents"].l[1], "documentId", None)
              IN IF publication_id # None /\ document_id # None
                 THEN PublicationUrl(publication_id, document_id)
                 ELSE StrV(S_Empty)
         ELSE StrV(S_Empty)

\* a mutant of PubDateText: the except branch leaves the text empty
PubDateTextNoFallback(raw) ==
    IF raw.t # "str" THEN StrV(S_Empty)
    ELSE LET date_obj == FromIsoFormat(raw.s \o <<"Z">>)
         IN IF date_obj.ok THEN StrV(Strftime(date_obj)) ELSE StrV(S_Empty)

\* the text of pubDate: the try block, and the except branch where it raises
\* (the TypeError of None + 'Z', the ValueError of fromisoformat)
PubDateText(raw) ==
    IF raw.t # "str" THEN raw
    ELSE LET date_obj == FromIsoFormat(raw.s \o <<"Z">>)
         IN IF date_obj.ok THEN StrV(Strftime(date_obj)) ELSE raw

\* the pubDate elements the loop body adds to the item
PubDateChildren(item_data) ==
    IF In(item_data, "publicationStartDate")
    THEN <<Elem("pubDate", PubDateText(item_data["publicationStartDate"]))>>
    ELSE <<>>

\* a mutant of GuidText: the guid falls back to the link, as the comment above it says
GuidTextLinkFallback(item_data) ==
    IF Get(item_data, "id") = None THEN LinkText(item_data) ELSE StrV(PyStr(Get(item_data, "id")))

\* guid_text = str(item_data.get('id'))
GuidText(item_data) == StrV(PyStr(Get(item_data, "id")))

S_ImagePng == <<"i","m","a","g","e","/","p","n","g">>
S_EnclosureLength == <<"1","2","3","4","5","6">>
S_EnclosureUrl == <<"h","t","t","p","s",":","/","/","c","o","m","m","i","t","t","e","e","s",".","p","a","r","l","i","a","m","e","n","t",".","u","k","/","d","i","s","t","/","o","p","e","n","g","r","a","p","h","-","c","a","r","d",".","p","n","g">>

Enclosure ==
    [tag |-> "enclosure ", text |-> None,
     attrib |-> << <<"type", S_ImagePng>>, <<"url", S_EnclosureUrl>>, <<"length", S_EnclosureLength>> >>,
     children |-> <<>>]

\* the loop body after the item element is made: the children it gives the item
\* and the exception that cuts it short ("none" where it runs to its end)
ItemBody(item_data) ==
    LET api_description == GetD(item_data, "description", StrV(S_Empty))
        committee == GetD(item_data, "committee", DictV([house |-> Absent, name |-> Absent, category |-> Absent]))
    IN IF api_description.t # "str"
       THEN [children |-> <<>>, err |-> "TypeError"]
       ELSE IF committee.t # "dict"
       THEN [children |-> <<>>, err |-> "AttributeError"]
       ELSE
         LET split == SplitReportTitle(api_description.s)
             committee_name == GetD(committee.d, "name", StrV(S_Empty))
             c1 == SubElement(<<>>, Elem("title", StrV(split[2])))
             c2 == SubElement(c1, Elem("description", StrV(Strip(split[1]))))
             c3 == SubElement(c2, Elem("author", committee_name))
             c4 == SubElement(c3, Enclosure)
         IN IF LinkRaises(item_data)
            THEN [children |-> c4, err |-> "TypeError"]
            ELSE
              LET c5 == SubElement(c4, Elem("link", LinkText(item_data)))
                  c6 == c5 \o PubDateChildren(item_data)
                  c7 == SubElement(c6, Elem("guid", GuidText(item_data)))
              IN [children |-> c7, err |-> "none"]

ItemElem(children) == [tag |-> "item", text |-> None, attrib |-> <<>>, children |-> children]

S_FeedTitle == <<"H","o","u","s","e"," ","o","f"," ","C","o","m","m","o","n","s"," ","S","e","l","e","c","t"," ","C","o","m","m","i","t","t","e","e"," ","R","e","p","o","r","t","s">>
S_FeedLink == <<"h","t","t","p","s",":","/","/","c","o","m","m","i","t","t","e","e","s",".","p","a","r","l","i","a","m","e","n","t",".","u","k","/","p","u","b","l","i","c","a","t","i","o","n","s","/">>
S_FeedDescription == <<"L","a","t","e","s","t"," ","r","e","p","o","r","t","s"," ","f","r","o","m"," ","H","o","u","s","e"," ","o","f"," ","C","o","m","m","o","n","s"," ","s","e","l","e","c","t"," ","c","o","m","m","i","t","t","e","e","s">>
S_RssFeed == <<"R","S","S"," ","F","e","e","d">>

\* feed_info of generate_rss (it holds no language)
FeedInfo == [title |-> StrV(S_FeedTitle), link |-> StrV(S_FeedLink),
             description |-> StrV(S_FeedDescription), language |-> Absent]

\* datetime.utcnow(): the instants the clock is read at
Clock == {[ok |-> TRUE, year |-> 2026, month |-> 11, day |-> 1, hour |-> 9, minute |-> 5, second |-> 0]}

\* the channel's own elements, made before the loop
ChannelHead(feed_info, now) ==
    LET h1 == SubElement(<<>>, Elem("title", GetD(feed_info, "title", StrV(S_RssFeed))))
        h2 == SubElement(h1, Elem("link", GetD(feed_info, "link", StrV(S_Empty))))
        h3 == SubElement(h2, Elem("description", GetD(feed_info, "description", StrV(S_Empty))))
        h4 == IF In(feed_info, "language") THEN SubElement(h3, Elem("language", feed_info["language"])) ELSE h3
    IN SubElement(h4, Elem("lastBuildDate", StrV(Strftime(now))))

(***************************************************************************)
(* prettify_xml and the output file.                                       *)
(***************************************************************************)
NoFile == [t |-> "nofile"]
EmptyFile == [t |-> "empty"]
NoXml == [t |-> "none"]
\* what an earlier run left in output_file
OldFile == [t |-> "xml", doc |-> <<>>]

\* tostring() writes None and str texts only
TextSerializable(v) == v = None \/ v.t = "str"

\* minidom.parseString() rejects the characters XML does not allow
TextWellFormed(v) == v = None \/ v.t # "str" \/ \A k \in 1..Len(v.s) : v.s[k] # Nul

AllElems(children) ==
    {children[k] : k \in 1..Len(children)}
    \cup UNION {{children[k].children[j] : j \in 1..Len(children[k].children)} : k \in 1..Len(children)}

\* the exception prettify_xml raises on the tree, "none" where it returns
PrettifyError(children) ==
    IF \E e \in AllElems(children) : ~TextSerializable(e.text) THEN "TypeError"
    ELSE IF \E e \in AllElems(children) : ~TextWellFormed(e.text) THEN "ExpatError"
    ELSE "none"

RECURSIVE PrettyElems(_)
\* the elements as minidom re-reads them: a tag name ends at its first blank,
\* an element without text and one with an empty text are the same
PrettyElems(children) ==
    [k \in 1..Len(children) |->
        [tag |-> IF children[k].tag = "enclosure " THEN "enclosure" ELSE children[k].tag,
         text |-> IF children[k].text = None THEN StrV(S_Empty) ELSE children[k].text,
         attrib |-> children[k].attrib,
         children |-> PrettyElems(children[k].children)]]

\* prettify_xml(rss): the document of the returned string
PrettifyXml(children) == [t |-> "xml", doc |-> <<[tag |-> "rss", version |-> "2.0", channel |-> PrettyElems(children)]>>]

(***************************************************************************)
(* The inputs the model draws.                                             *)
(***************************************************************************)
RECURSIVE StringsUpTo(_, _)
StringsUpTo(alphabet, n) ==
    IF n = 0 THEN {<<>>}
    ELSE LET shorter == StringsUpTo(alphabet, n - 1)
         IN shorter \cup {Append(s, c) : s \in shorter, c \in alphabet}

TitleAlphabet == {"5", "t", "h", " ", "-", ":", "R"}
TextAlphabet == {"a", " ", "-", ":"}
Texts == StringsUpTo(TextAlphabet, MaxText)
Numbers == {<<"5">>, <<"5","8">>}
Suffixes == {<<"s","t">>, <<"n","d">>, <<"r","d">>, <<"t","h">>,
             <<"S","T">>, <<"N","d">>, <<"r","D">>, <<"T","H">>}
S_Report == <<" ","R","e","p","o","r","t">>
S_SpecialReport == <<" ","S","p","e","c","i","a","l"," ","R","e","p","o","r","t">>
S_Hyphen == <<" ","-"," ">>
S_Colon == <<":"," ">>
OrdinalPrefixes == {n \o x \o w : n \in Numbers, x \in Suffixes, w \in {S_Report, S_SpecialReport}}
OtherPrefixes == {<<"5","8"," ","R","e","p","o","r","t">>,
                  <<"5","8","t","h"," ","R","e","p","o","r","t","s">>,
                  <<"t","h"," ","R","e","p","o","r","t">>,
                  <<"R","e","p","o","r","t">>}
Dividers == {S_Hyphen, S_Colon, <<"-">>, <<" ", EnDash, " ">>, <<EmDash>>, <<" ", " ", ":", "\t">>, <<>>}
TitleInputs ==
    StringsUpTo(TitleAlphabet, MaxLen)
    \cup {p \o d \o t : p \in OrdinalPrefixes \cup OtherPrefixes, d \in Dividers, t \in Texts}

S_Description == <<"5","8","t","h"," ","R","e","p","o","r","t"," ","-"," ","T","i","t","l","e"," ","X">>
S_Plain == <<"S","o","m","e"," ","t","e","x","t">>
S_Url == <<"h","t","t","p","s",":","/","/","x",".","t","e","s","t","/","1">>
S_GoodDate == <<"2","0","2","4","-","0","1","-","1","5","T","1","0",":","0","0",":","0","0">>
S_GoodDateRfc822 == <<"M","o","n",","," ","1","5"," ","J","a","n"," ","2","0","2","4"," ","1","0",":","0","0",":","0","0"," ","G","M","T">>
S_BadDate == <<"2","0","2","4","-","0","2","-","3","0","T","1","0",":","0","0",":","0","0">>
S_Commons == <<"C","o","m","m","o","n","s">>
S_Defence == <<"D","e","f","e","n","c","e"," ","C","o","m","m","i","t","t","e","e">>
S_Backbench == <<"B","a","c","k","b","e","n","c","h">>

Doc(id) == [documentId |-> id]
Category(name, id) == DictV([name |-> name, id |-> id])
Committee(house, name, category) == DictV([house |-> house, name |-> name, category |-> category])
Item(id, description, url, documents, date, committee) ==
    [id |-> id, description |-> description, additionalContentUrl |-> url,
     documents |-> documents, publicationStartDate |-> date, committee |-> committee]

Categories == {Absent, None, Category(Absent, Absent), Category(Absent, IntV(1)), Category(None, Absent),
               Category(StrV(S_Select), Absent), Category(StrV(S_Backbench), Absent)}
Committees ==
    {Absent, None}
    \cup {Committee(h, n, c) : h \in {Absent, StrV(S_Lords), StrV(S_Commons)},
                               n \in {Absent, StrV(S_Defence)}, c \in Categories}
DocumentLists == {Absent, None, ListV(<<>>), ListV(<<Doc(Absent)>>), ListV(<<Doc(None)>>),
                  ListV(<<Doc(IntV(7))>>), ListV(<<Doc(IntV(7)), Doc(IntV(8))>>)}
Dates == {Absent, None, StrV(S_GoodDate), StrV(S_BadDate)}

\* the raw items create_rss_feed is called on, one at a time
AllItems ==
    {Item(i, d, u, docs, dt, c) :
        i \in {Absent, None, IntV(42)},
        d \in {Absent, None, StrV(S_Description), StrV(S_Plain)},
        u \in {Absent, None, StrV(S_Url)},
        docs \in DocumentLists, dt \in Dates, c \in Committees}

\* the raw items of the API responses generate_rss is run on
FeedItems ==
    {Item(IntV(i), StrV(S_Description), Absent, Absent, dt, Absent) : i \in {1, 2}, dt \in Dates}
    \cup {Item(IntV(3), StrV(S_Description), Absent, Absent, StrV(S_BadDate), Committee(StrV(S_Lords), Absent, Absent)),
          Item(IntV(1), StrV(S_Description), Absent, Absent, StrV(S_GoodDate),
               Committee(StrV(S_Commons), Absent, Category(StrV(S_Backbench), Absent))),
          Item(IntV(4), StrV(S_Description), Absent, Absent, Absent, None),
          Item(IntV(5), StrV(<<"a", Nul>>), Absent, Absent, StrV(S_BadDate), Absent)}

ItemLists == UNION {[1..n -> FeedItems] : n \in 0..MaxItems}

\* the decoded bodies fetch_json_data returns
Responses == {[items |-> Absent]} \cup {[items |-> ListV(l)] : l \in ItemLists}

(***************************************************************************)
(* The actions.                                                            *)
(***************************************************************************)
\* split_report_title is called on input
CallSplitReportTitle ==
    /\ tpc = "call"
    /\ result' = SplitReportTitle(input)
    /\ tpc' = "done"
    /\ UNCHANGED <<input, items, idx, channel, err, pc, file, file0, xml, printed>>

\* generate_rss: data = fetch_json_data(api_url); items = data.get('items', [])
Fetch ==
    /\ pc = "fetch"
    /\ \E data \in Responses : items' = GetD(data, "items", ListV(<<>>)).l
    /\ pc' = "create"
    /\ UNCHANGED <<idx, channel, err, file, file0, xml, printed>>
    /\ UNCHANGED titleVars

\* generate_rss: fetch_json_data raises (no connection, an error status, a body that is no JSON)
FetchFails ==
    /\ pc = "fetch"
    /\ err' \in {"URLError", "JSONDecodeError"}
    /\ pc' = "aborted"
    /\ UNCHANGED <<items, idx, channel, file, file0, xml, printed>>
    /\ UNCHANGED titleVars

\* create_rss_feed: the rss and channel elements and the channel's own children
FeedStart ==
    /\ pc = "create"
    /\ \E now \in Clock : channel' = ChannelHead(FeedInfo, now)
    /\ idx' = 1
    /\ pc' = "loop"
    /\ UNCHANGED <<items, err, file, file0, xml, printed>>
    /\ UNCHANGED titleVars

\* create_rss_feed: one turn of the for loop
FeedItem ==
    /\ pc = "loop"
    /\ idx <= Len(items)
    /\ LET item_data == items[idx]
           body == ItemBody(item_data)
       IN IF Skipped(item_data)
          THEN /\ idx' = idx + 1
               /\ UNCHANGED <<channel, err, pc>>
          ELSE /\ channel' = SubElement(channel, ItemElem(body.children))
               /\ err' = body.err
               /\ IF body.err = "none"
                  THEN idx' = idx + 1 /\ pc' = pc
                  ELSE idx' = idx /\ pc' = "aborted"
    /\ UNCHANGED <<items, file, file0, xml, printed>>
    /\ UNCHANGED titleVars

\* create_rss_feed: return rss
FeedReturn ==
    /\ pc = "loop"
    /\ idx > Len(items)
    /\ pc' = "open"
    /\ UNCHANGED <<items, idx, channel, err, file, file0, xml, printed>>
    /\ UNCHANGED titleVars

\* generate_rss: open(output_file, 'w') makes the file or empties it
Open ==
    /\ pc = "open"
    /\ file' = EmptyFile
    /\ pc' = "prettify"
    /\ UNCHANGED <<items, idx, channel, err, file0, xml, printed>>
    /\ UNCHANGED titleVars

\* generate_rss: open raises (no directory, no permission)
OpenFails ==
    /\ pc = "open"
    /\ err' = "OSError"
    /\ pc' = "aborted"
    /\ UNCHANGED <<items, idx, channel, file, file0, xml, printed>>
    /\ UNCHANGED titleVars

\* generate_rss: the argument prettify_xml(rss) of f.write, evaluated in the with block
Prettify ==
    /\ pc = "prettify"
    /\ PrettifyError(channel) = "none"
    /\ xml' = PrettifyXml(channel)
    /\ pc' = "write"
    /\ UNCHANGED <<items, idx, channel, err, file, file0, printed>>
    /\ UNCHANGED titleVars

\* generate_rss: prettify_xml raises; the with block closes the file as it is
PrettifyFails ==
    /\ pc = "prettify"
    /\ PrettifyError(channel) # "none"
    /\ err' = PrettifyError(channel)
    /\ pc' = "aborted"
    /\ UNCHANGED <<items, idx, channel, file, file0, xml, printed>>
    /\ UNCHANGED titleVars

\* generate_rss: f.write(...) and the close at the end of the with block
Write ==
    /\ pc = "write"
    /\ file' = xml
    /\ pc' = "print"
    /\ UNCHANGED <<items, idx, channel, err, file0, xml, printed>>
    /\ UNCHANGED titleVars

\* generate_rss: the write or the close raises (disk full, I/O error)
WriteFails ==
    /\ pc = "write"
    /\ err' = "OSError"
    /\ pc' = "aborted"
    /\ UNCHANGED <<items, idx, channel, file, file0, xml, printed>>
    /\ UNCHANGED titleVars

\* generate_rss: print(f"RSS feed generated: {output_file}")
SuccessMessage ==
    /\ pc = "print"
    /\ printed' = TRUE
    /\ pc' = "done"
    /\ UNCHANGED <<items, idx, channel, err, file, file0, xml>>
    /\ UNCHANGED titleVars

(***************************************************************************)
(* The specifications.                                                     *)
(***************************************************************************)
NoCall == input = <<>> /\ tpc = "idle" /\ result = << <<>>, <<>> >>

NoRun(at) ==
    /\ idx = 0 /\ channel = <<>> /\ err = "none" /\ pc = at
    /\ file = file0 /\ xml = NoXml /\ printed = FALSE

\* a run of generate_rss
Init ==
    /\ NoCall
    /\ items = <<>>
    /\ file0 \in {NoFile, OldFile}
    /\ NoRun("fetch")

Next ==
    \/ Fetch \/ FetchFails
    \/ FeedStart \/ FeedItem \/ FeedReturn
    \/ Open \/ OpenFails
    \/ Prettify \/ PrettifyFails
    \/ Write \/ WriteFails
    \/ SuccessMessage

Spec == Init /\ [][Next]_vars

\* a call of create_rss_feed on one raw item
InitItem ==
    /\ NoCall
    /\ \E item_data \in AllItems : items = <<item_data>>
    /\ file0 = NoFile
    /\ NoRun("create")

NextItem == FeedStart \/ FeedItem \/ FeedReturn

SpecItem == InitItem /\ [][NextItem]_vars

\* a call of split_report_title
InitTitle ==
    /\ input \in TitleInputs
    /\ tpc = "call"
    /\ result = << <<>>, <<>> >>
    /\ items = <<>>
    /\ file0 = NoFile
    /\ NoRun("idle")

NextTitle == CallSplitReportTitle

SpecTitle == InitTitle /\ [][NextTitle]_vars

(***************************************************************************)
(* What the claims speak of.                                               *)
(***************************************************************************)
IsItemElem(e) == e.tag = "item"
IsAccepted(item_data) == ~Skipped(item_data)

\* the item elements of the channel, in document order
ItemElems == SelectSeq(channel, IsItemElem)

\* the texts of the children of e that carry the tag, in document order
ChildTexts(e, tag) ==
    LET at == {k \in 1..Len(e.children) : e.children[k].tag = tag}
        RECURSIVE Upto(_)
        Upto(k) == IF k = 0 THEN <<>>
                   ELSE IF k \in at THEN Append(Upto(k - 1), e.children[k].text) ELSE Upto(k - 1)
    IN Upto(Len(e.children))

\* the number of divider characters of s: each match of divider_pattern holds exactly one
DividerCount(s) == Cardinality({k \in 1..Len(s) : IsDivider(s[k])})

FirstDivider(s) == CHOOSE k \in 1..Len(s) : IsDivider(s[k]) /\ \A j \in 1..(k-1) : ~IsDivider(s[j])

NoSplit == result = << <<>>, input >>

\* create_rss_feed was called on the one item of SpecItem and its loop turn is over
Processed == Len(items) = 1 /\ (idx = 2 \/ pc = "aborted")

\* the loop of create_rss_feed was cut short by an exception
RaisedInLoop == pc = "aborted" /\ idx >= 1 /\ idx <= Len(items)

\* create_rss_feed has returned the tree
Returned == idx >= 1 /\ idx > Len(items)

HasCommittee(item_data) == item_data.committee \notin {Absent, None}
HouseOf(item_data) == item_data.committee.d.house
CategoryOf(item_data) == item_data.committee.d.category

(***************************************************************************)
(* C1.  As stated: every input with zero or with more than one divider     *)
(* match comes back as ("", input).                                        *)
(***************************************************************************)
C1_Original == (tpc = "done" /\ DividerCount(input) # 1) => NoSplit

(* C1, amended: an input without a divider comes back as ("", input); an   *)
(* input with more than one divider is split at its first divider only,    *)
(* and comes back as ("", input) unless the trimmed text before that       *)
(* divider is an ordinal prefix, in which case the result is that prefix   *)
(* and the trimmed text after the first divider.                           *)
C1_FirstDividerSplits ==
    tpc = "done" =>
        /\ DividerCount(input) = 0 => NoSplit
        /\ DividerCount(input) > 1 =>
             LET k == FirstDivider(input)
                 left == Strip(Slice(input, 1, k - 1))
                 right == Strip(Slice(input, k + 1, Len(input)))
             IN IF OrdinalMatch(left) THEN result = <<left, right>> ELSE NoSplit

C1_Witness ==
    /\ tpc = "done"
    /\ DividerCount(input) > 1
    /\ result[1] = <<"5","8","t","h"," ","R","e","p","o","r","t">>
    /\ result[2] = <<"a", ":">>

(***************************************************************************)
(* C8.  "<N><suffix> Report - <text>" and "<N><suffix> Special Report:     *)
(* <text>" come back as the text before the divider and the trimmed text.  *)
(***************************************************************************)
C8_OrdinalFormsSplit ==
    tpc = "done" =>
        \A n \in Numbers, x \in Suffixes, t \in Texts :
            /\ input = n \o x \o S_Report \o S_Hyphen \o t
                  => result = <<n \o x \o S_Report, Strip(t)>>
            /\ input = n \o x \o S_SpecialReport \o S_Colon \o t
                  => result = <<n \o x \o S_SpecialReport, Strip(t)>>

C8_Witness ==
    /\ tpc = "done"
    /\ input = <<"5","8","T","H">> \o S_SpecialReport \o S_Colon \o <<" ", "a">>
    /\ result = << <<"5","8","T","H">> \o S_SpecialReport, <<"a">> >>

(***************************************************************************)
(* C2.  As stated: an item with a committee whose house is not Lords is    *)
(* left out exactly when its category holds a name that is not "Select".   *)
(***************************************************************************)
C2_Original ==
    (Processed /\ HasCommittee(items[1]) /\ HouseOf(items[1]) # StrV(S_Lords)) =>
        LET category == CategoryOf(items[1])
            named == category \notin {Absent, None} /\ category.d.name # Absent
        IN (ItemElems = <<>>) <=> (named /\ category.d.name # StrV(S_Select))

(* C2, amended: such an item is left out exactly when its category is      *)
(* present, not null and not an empty mapping, and the category's name is  *)
(* not "Select": a category that holds other keys but no name, or a null   *)
(* name, is left out too.                                                  *)
C2_CategoryRule ==
    (Processed /\ HasCommittee(items[1]) /\ HouseOf(items[1]) # StrV(S_Lords)) =>
        LET category == CategoryOf(items[1])
            nonEmpty == /\ category \notin {Absent, None}
                        /\ (category.d.name # Absent \/ category.d.id # Absent)
        IN /\ (ItemElems = <<>>) <=> (nonEmpty /\ category.d.name # StrV(S_Select))
           /\ Len(ItemElems) <= 1

C2_Witness ==
    /\ Processed
    /\ HasCommittee(items[1])
    /\ HouseOf(items[1]) = StrV(S_Commons)
    /\ CategoryOf(items[1]) = Category(Absent, IntV(1))
    /\ ItemElems = <<>>

(***************************************************************************)
(* C6.  No item element is ever made for an item whose committee.house is  *)
(* "Lords", whatever its other fields.                                     *)
(***************************************************************************)
C6_LordsExcluded ==
    (Len(items) = 1 /\ HasCommittee(items[1]) /\ HouseOf(items[1]) = StrV(S_Lords))
        => ItemElems = <<>>

C6_Witness ==
    /\ Processed
    /\ pc = "open"
    /\ HasCommittee(items[1])
    /\ HouseOf(items[1]) = StrV(S_Lords)
    /\ CategoryOf(items[1]) = Category(StrV(S_Select), Absent)
    /\ items[1].additionalContentUrl = StrV(S_Url)
    /\ ItemElems = <<>>

(***************************************************************************)
(* C7.  The link of an item: additionalContentUrl where it is there and    *)
(* not null; else the publications URL of the id and the first document's  *)
(* documentId, where documents is a non-empty list and both are there and  *)
(* not null; else the empty string.                                        *)
(***************************************************************************)
S_Url42_7 == <<"h","t","t","p","s",":","/","/","c","o","m","m","i","t","t","e","e","s",".","p","a","r","l","i","a","m","e","n","t",".","u","k","/","p","u","b","l","i","c","a","t","i","o","n","s","/","4","2","/","d","o","c","u","m","e","n","t","s","/","7","/","d","e","f","a","u","l","t","/">>

C7_ExpectedLink(item_data) ==
    LET url == item_data.additionalContentUrl
        docs == item_data.documents
        id == item_data.id
    IN IF url \notin {Absent, None} THEN url
       ELSE IF /\ docs \notin {Absent, None} /\ docs.l # <<>>
               /\ id \notin {Absent, None} /\ docs.l[1].documentId \notin {Absent, None}
            THEN IF id = IntV(42) /\ docs.l[1].documentId = IntV(7)
                 THEN StrV(S_Url42_7)
                 ELSE StrV(UrlPublications \o PyStr(id) \o UrlDocuments
                           \o PyStr(docs.l[1].documentId) \o UrlDefault)
            ELSE StrV(<<>>)

C7_LinkPriority ==
    /\ \A k \in 1..Len(ItemElems) : ChildTexts(ItemElems[k], "link") \in {<<>>, <<C7_ExpectedLink(items[1])>>}
    /\ (Processed /\ err = "none" /\ IsAccepted(items[1]))
          => /\ Len(ItemElems) = 1
             /\ ChildTexts(ItemElems[1], "link") = <<C7_ExpectedLink(items[1])>>

C7_Witness ==
    /\ Processed /\ err = "none"
    /\ items[1].additionalContentUrl = None
    /\ items[1].documents = ListV(<<Doc(IntV(7)), Doc(IntV(8))>>)
    /\ Len(ItemElems) = 1
    /\ ChildTexts(ItemElems[1], "link") = <<StrV(S_Url42_7)>>

C4_NeverRaises == err = "none" /\ pc # "aborted"

(***************************************************************************)
(* C5.  The item elements of the channel are the accepted items, one each, *)
(* in the order of the input: their guids are the string forms of the ids  *)
(* of the accepted items, in input order.                                  *)
(***************************************************************************)
C5_Guids(elems) == [k \in 1..Len(elems) |-> ChildTexts(elems[k], "guid")]

C5_IdStrings(its) == [k \in 1..Len(its) |-> <<StrV(PyStr(its[k].id))>>]

C5_AcceptedInOrder ==
    (idx >= 1 /\ ~RaisedInLoop) =>
        C5_Guids(ItemElems) = C5_IdStrings(SelectSeq(SubSeq(items, 1, idx - 1), IsAccepted))

C5_Witness ==
    /\ pc = "done"
    /\ Len(items) = 2
    /\ C5_Guids(ItemElems) = << <<StrV(<<"2">>)>>, <<StrV(<<"1">>)>> >>

(***************************************************************************)
(* C9.  An accepted item without publicationStartDate gets no pubDate; one *)
(* with it gets exactly one, the RFC-822 rendering where the value with Z  *)
(* appended parses and the raw value where it does not; a date that does   *)
(* not parse neither ends the run nor changes another item's element.      *)
(***************************************************************************)
C9_ExpectedPubDate(item_data) ==
    LET raw == item_data.publicationStartDate
    IN IF raw = Absent THEN <<>>
       ELSE IF raw = StrV(S_GoodDate) THEN <<StrV(S_GoodDateRfc822)>>
       ELSE IF raw.t = "str" /\ FromIsoFormat(raw.s \o <<"Z">>).ok
            THEN <<StrV(Strftime(FromIsoFormat(raw.s \o <<"Z">>)))>>
            ELSE <<raw>>

C9_PubDate ==
    /\ (idx >= 1 /\ ~RaisedInLoop) =>
          LET accepted == SelectSeq(SubSeq(items, 1, idx - 1), IsAccepted)
          IN /\ Len(ItemElems) = Len(accepted)
             /\ \A k \in 1..Len(accepted) :
                   ChildTexts(ItemElems[k], "pubDate") = C9_ExpectedPubDate(accepted[k])
    /\ RaisedInLoop => \E f \in {"description", "committee", "documents"} : items[idx][f] = None
    /\ (pc = "aborted" /\ Returned /\ err \in {"TypeError", "ExpatError"})
          => \E e \in AllElems(channel) :
                e.tag # "pubDate" /\ ~(TextSerializable(e.text) /\ TextWellFormed(e.text))

C9_Witness ==
    /\ pc = "done"
    /\ Len(items) = 2
    /\ items[1].publicationStartDate = StrV(S_BadDate)
    /\ items[2].publicationStartDate = StrV(S_GoodDate)
    /\ Len(ItemElems) = 2
    /\ ChildTexts(ItemElems[1], "pubDate") = <<StrV(S_BadDate)>>
    /\ ChildTexts(ItemElems[2], "pubDate") = <<StrV(S_GoodDateRfc822)>>

(***************************************************************************)
(* C3.  A run that ends in a fatal error leaves the output file as it was  *)
(* before the run, and the success message is printed only once the file   *)
(* is written.                                                             *)
(***************************************************************************)
C3_FileUntouchedOnError ==
    /\ pc = "aborted" => file = file0
    /\ printed => (xml # NoXml /\ file = xml)

====
